---- MODULE Spec2Model ----
(***************************************************************************)
(* Stashtrend: sync-job lifecycle (Job Store / Job Runner) and the         *)
(* account-group selection page (GroupsPage + GroupSnapshotControls).      *)
(*                                                                         *)
(* The Flask backend (backend/app.py) is not part of the sources at hand;  *)
(* the Job Store, the Job Runner and the configs/groups endpoints are      *)
(* modelled from the written specification.  GroupsPage.jsx,               *)
(* GroupSnapshotControls.jsx and constants/syncEntities.js are modelled    *)
(* from their code, and so are SyncPage (polling, history resume, unmount) *)
(* and SyncControl.handleStart.                                            *)
(***************************************************************************)
EXTENDS Integers, Sequences, FiniteSets, Bags, TLC

\* ------------------------------------------------------------------ bounds
MaxJobs == 2
MaxGroups == 4
MaxAccounts == 2
MaxEdits == 1
MaxSaves == 1
MaxFetches == 2
MaxInFlight == 2
MaxPosts == 2
MaxClicks == 1

\* --------------------------------------------------------------- variables
VARIABLES
  jobs,        \* Job Store: sequence of SyncJob records, job id = index
  startResp,   \* outcome of the most recent start / tryStart call
  readResp,    \* outcome of the most recent get (poll) call
  \* server side of the groups page (backend store)
  srvGroups,        \* account groups: sequence of [id, account_ids]
  srvConfigs,       \* saved configurations: sequence of [id, group_ids]
  srvActive,        \* stored active_config_id (0 = null)
  srvNextId,        \* next configuration id the store assigns
  \* GroupsPage component state
  groups,           \* useState([])
  conflictMap,      \* useMemo over groups
  configs,          \* useState([])
  activeConfigId,   \* useState(null), 0 = null
  selectedGroupIds, \* useState(new Set())
  error,            \* useState(null): TRUE when an error message is set
  net,              \* requests of the page that are in flight
  edits,            \* number of group edits made through GroupManager
  loading,          \* GroupsPage useState(true): loading
  accountsPending,  \* the mount request for the accounts summary is in flight
  accounts,         \* GroupsPage useState([]): accounts (their ids)
  gmSaving,         \* GroupManager useState(false): saving
  gmNet,            \* requests of GroupManager that are in flight
  posts,            \* number of configuration posts the page has issued
  \* SyncPage component state
  mounted,          \* the view is mounted
  displayedJob,     \* useState(null): job shown in SyncJobStatus
  history,          \* useState([]): the rows of the history table
  clicks,           \* number of clicks on the entity rows and on select all
  isRunning,        \* useState(false)
  pollError,        \* useState(null): TRUE when the stale-status notice is set
  pollRef,          \* useRef(null): id of the interval, 0 = null
  timers,           \* the intervals that are live: set of [id, job]
  \* SyncControl component state
  selected,         \* useState(new Set(all entities))
  isStarting,       \* useState(false)
  startError,       \* useState(null): TRUE when the message is set
  pnet,             \* requests of the sync page that are in flight (a bag)
  \* settings store and scheduler (backend)
  srvInterval,      \* stored sync_interval_hours
  sinceFire,        \* hours since the scheduler fired or was rescheduled
  \* AutoSyncSettings component state
  syncInterval,     \* useState(0)
  saving,           \* useState(false)
  settingsError,    \* useState(null): TRUE when a message is set
  anet              \* requests of the settings card that are in flight (a bag)

jobVars == <<jobs, startResp, readResp>>
srvVars == <<srvGroups, srvConfigs, srvActive, srvNextId>>
pageVars == <<groups, conflictMap, configs, activeConfigId, selectedGroupIds, loading, error>>
gmVars == <<accountsPending, accounts, gmSaving, gmNet, posts>>
groupVars == <<srvVars, pageVars, net, edits, gmVars>>
pollVars == <<mounted, displayedJob, history, clicks, isRunning, pollError,
              pollRef, timers, selected, isStarting, startError, pnet>>
autoVars == <<srvInterval, sinceFire, syncInterval, saving, settingsError, anet>>
vars == <<jobVars, groupVars, pollVars, autoVars>>

\* ---------------------------------------------------------- sync entities
\* constants/syncEntities.js: the canonical entity order
SYNC_ENTITY_ORDER ==
  <<"accounts", "account_history", "categories", "transactions", "budgets">>

\* the entity sets a start request may name: a single entity, and a pair
\* that is not adjacent in the canonical order
RequestSets == {{"transactions"}, {"budgets", "accounts"}}

EntityStatuses == {"success", "partial", "failed"}
TerminalStatuses == {"success", "partial", "failed"}

\* position of an entity in the canonical order
OrderIndex(e) == CHOOSE i \in 1..Len(SYNC_ENTITY_ORDER) : SYNC_ENTITY_ORDER[i] = e

\* ------------------------------------------------------------- Job Store
NoResults == [e \in {} |-> "none"]

RunningJobs == {j \in 1..Len(jobs) : jobs[j].status = "running"}

\* a new SyncJob record: status running, finished_at null, no results
NewJob(entities) ==
  [entities    |-> entities,
   status      |-> "running",
   finished_at |-> "null",
   results     |-> NoResults,
   attempted   |-> <<>>,
   error       |-> "null"]

\* tryStart: one atomic check-and-insert
TryStartMutNoCheck(entities, origin) ==
  /\ jobs' = Append(jobs, NewJob(entities))
  /\ startResp' = [kind |-> "started", job_id |-> Len(jobs) + 1, origin |-> origin]

tryStartMutSilent(entities, origin) ==
  IF RunningJobs # {}
  THEN /\ startResp' = [kind |-> "started", job_id |-> CHOOSE j \in RunningJobs : TRUE,
                        origin |-> origin]
       /\ jobs' = jobs
  ELSE /\ jobs' = Append(jobs, NewJob(entities))
       /\ startResp' = [kind |-> "started", job_id |-> Len(jobs) + 1, origin |-> origin]

tryStart(entities, origin) ==
  IF RunningJobs # {}
  THEN /\ startResp' = [kind |-> "concurrency_error", job_id |-> 0, origin |-> origin]
       /\ jobs' = jobs
  ELSE /\ jobs' = Append(jobs, NewJob(entities))
       /\ startResp' = [kind |-> "started", job_id |-> Len(jobs) + 1, origin |-> origin]

\* POST start-sync (manual) or a scheduled fire: both go through tryStart
Start(entities, origin) ==
  /\ entities # {}
  /\ Len(jobs) < MaxJobs \/ RunningJobs # {}
  /\ tryStart(entities, origin)
  /\ UNCHANGED <<readResp, groupVars, autoVars, pollVars>>

\* the next requested entity in canonical order that has no result yet
Pending(j) == jobs[j].entities \ DOMAIN jobs[j].results

NextEntityMutReverse(j) ==
  CHOOSE e \in Pending(j) : \A f \in Pending(j) : OrderIndex(e) >= OrderIndex(f)

NextEntity(j) ==
  CHOOSE e \in Pending(j) : \A f \in Pending(j) : OrderIndex(e) <= OrderIndex(f)

\* recordEntityResult: append one EntityResult to a running job
recordEntityResult(j, e, st) ==
  jobs' = [jobs EXCEPT ![j].results = [x \in DOMAIN @ \cup {e} |-> IF x = e THEN st ELSE @[x]],
                       ![j].attempted = Append(@, e)]

\* Job Runner: attempt the next entity (fetch + persist as one unit); a
\* failure is recorded and the loop goes on
RunEntity(j, st) ==
  /\ j \in RunningJobs
  /\ Pending(j) # {}
  /\ recordEntityResult(j, NextEntity(j), st)
  /\ UNCHANGED <<startResp, readResp, groupVars, autoVars, pollVars>>

\* aggregate job status from the entity results
AggregateMutAnySuccess(results) ==
  IF \A e \in DOMAIN results : results[e] = "success" THEN "success"
  ELSE IF \E e \in DOMAIN results : results[e] = "success" THEN "partial"
  ELSE "failed"

Aggregate(results) ==
  IF \A e \in DOMAIN results : results[e] = "success" THEN "success"
  ELSE IF \A e \in DOMAIN results : results[e] = "failed" THEN "failed"
  ELSE "partial"

\* finish: set the terminal status and finished_at
finishMutNoTimestamp(j, st) ==
  jobs' = [jobs EXCEPT ![j].status = st]

finish(j, st) ==
  jobs' = [jobs EXCEPT ![j].status = st, ![j].finished_at = "set"]

\* Job Runner: all requested entities attempted -> terminal transition
FinishJob(j) ==
  /\ j \in RunningJobs
  /\ Pending(j) = {}
  /\ finish(j, Aggregate(jobs[j].results))
  /\ UNCHANGED <<startResp, readResp, groupVars, autoVars, pollVars>>

\* Job-level failure: the job cannot even begin; error set, status failed,
\* no EntityResults
JobLevelFailure(j) ==
  /\ j \in RunningJobs
  /\ jobs[j].attempted = <<>>
  /\ jobs' = [jobs EXCEPT ![j].status = "failed", ![j].finished_at = "set",
                          ![j].error = "set"]
  /\ UNCHANGED <<startResp, readResp, groupVars, autoVars, pollVars>>

\* get(jobId): point lookup for polling; read-only
Get(j) ==
  /\ j \in 1..Len(jobs)
  /\ readResp' = [kind |-> "job", job_id |-> j, status |-> jobs[j].status]
  /\ UNCHANGED <<jobs, startResp, groupVars, autoVars, pollVars>>

Origins == {"manual", "scheduled"}

JobInit ==
  /\ jobs = <<>>
  /\ startResp = [kind |-> "none", job_id |-> 0, origin |-> "manual"]
  /\ readResp = [kind |-> "none", job_id |-> 0, status |-> "none"]

\* displayedJob = null
NullJob == [id |-> 0, status |-> "null"]

\* SyncPage and SyncControl before they are mounted
PollIdle ==
  /\ mounted = FALSE
  /\ displayedJob = NullJob
  /\ history = <<>>
  /\ clicks = 0
  /\ isRunning = FALSE
  /\ pollError = FALSE
  /\ pollRef = 0
  /\ timers = {}
  /\ selected = {}
  /\ isStarting = FALSE
  /\ startError = FALSE
  /\ pnet = EmptyBag

\* settings card, settings store and scheduler at rest
AutoIdle ==
  /\ srvInterval = 0
  /\ sinceFire = 0
  /\ syncInterval = 0
  /\ saving = FALSE
  /\ settingsError = FALSE
  /\ anet = EmptyBag

JobNext ==
  \/ \E es \in RequestSets, o \in Origins : Start(es, o)
  \/ \E j \in 1..MaxJobs, st \in EntityStatuses : RunEntity(j, st)
  \/ \E j \in 1..MaxJobs : FinishJob(j)
  \/ \E j \in 1..MaxJobs : JobLevelFailure(j)
  \/ \E j \in 1..MaxJobs : Get(j)

\* ======================================================== groups page
GroupIds == 1..MaxGroups
AccountIds == 1..MaxAccounts

RECURSIVE SortedSeq(_)
SortedSeq(S) ==
  IF S = {} THEN <<>>
  ELSE LET m == CHOOSE x \in S : \A y \in S : x <= y
       IN <<m>> \o SortedSeq(S \ {m})

Range(seq) == {seq[i] : i \in 1..Len(seq)}

Ids(gs) == {gs[i].id : i \in 1..Len(gs)}

\* the stored groups at page creation: groups 1 and 3 share account 1,
\* group 2 is independent
InitialGroups ==
  <<[id |-> 1, account_ids |-> <<1>>],
    [id |-> 2, account_ids |-> <<2>>],
    [id |-> 3, account_ids |-> <<1>>]>>

\* the account lists a stored group can hold
AccountSeqs == {SortedSeq(S) : S \in SUBSET AccountIds}

\* the account lists a request can carry: no id twice, any order
AccountLists ==
  {s \in UNION {[1..n -> AccountIds] : n \in 0..MaxAccounts} :
     \A i, j \in 1..Len(s) : i # j => s[i] # s[j]}

\* the store at page creation holds one saved configuration (groups 1 and
\* 2, which share no account), active or not
InitialConfigs == <<[id |-> 1, group_ids |-> {1, 2}]>>

\* --- GroupsPage.conflictMap (useMemo) ---------------------------------
EmptyIndex == [aid \in AccountIds |-> <<>>]

\* inner loop: accountToGroups[aid].push(g.id) for each aid of g
RECURSIVE PushAccounts(_, _, _)
PushAccounts(idx, gid, aids) ==
  IF aids = <<>> THEN idx
  ELSE PushAccounts([idx EXCEPT ![Head(aids)] = Append(@, gid)], gid, Tail(aids))

\* outer loop: the reverse index account id -> list of group ids
RECURSIVE BuildIndex(_, _)
BuildIndex(idx, gs) ==
  IF gs = <<>> THEN idx
  ELSE BuildIndex(PushAccounts(idx, Head(gs).id, Head(gs).account_ids), Tail(gs))

accountToGroups(gs) == BuildIndex(EmptyIndex, gs)

\* the conflicts set of one group
ConflictsOfMutInclSelf(g, idx) ==
  UNION {Range(idx[aid]) : aid \in Range(g.account_ids)}

ConflictsOfMutOneWay(g, idx) ==
  UNION {{otherId \in Range(idx[aid]) : otherId > g.id} : aid \in Range(g.account_ids)}

ConflictsOf(g, idx) ==
  UNION {{otherId \in Range(idx[aid]) : otherId # g.id} : aid \in Range(g.account_ids)}

\* result[g.id] = conflicts, for each g in order (a later entry with the
\* same id overwrites an earlier one)
computeConflictMap(gs) ==
  LET idx == accountToGroups(gs)
      LastOf(gid) == gs[CHOOSE i \in 1..Len(gs) :
                          gs[i].id = gid /\ \A k \in 1..Len(gs) : gs[k].id = gid => k <= i]
  IN [gid \in Ids(gs) |-> ConflictsOf(LastOf(gid), idx)]

\* --- GroupSnapshotControls ---------------------------------------------
isSelected(groupId) == groupId \in selectedGroupIds

isBlockedMutNever(groupId) == FALSE

isBlockedMutConflictFirst(groupId) ==
  LET conflicts == IF groupId \in DOMAIN conflictMap THEN conflictMap[groupId] ELSE {}
  IN \E cid \in conflicts : cid \in selectedGroupIds

isBlocked(groupId) ==
  IF groupId \in selectedGroupIds THEN FALSE
  ELSE LET conflicts == IF groupId \in DOMAIN conflictMap THEN conflictMap[groupId] ELSE {}
       IN \E cid \in conflicts : cid \in selectedGroupIds

\* --- GroupsPage handlers ------------------------------------------------
handleGroupToggleMutReplace(groupId) ==
  /\ selectedGroupIds' = IF groupId \in selectedGroupIds
                         THEN selectedGroupIds \ {groupId}
                         ELSE {groupId}
  /\ activeConfigId' = 0

handleGroupToggleMutKeepPointer(groupId) ==
  /\ selectedGroupIds' = IF groupId \in selectedGroupIds
                         THEN selectedGroupIds \ {groupId}
                         ELSE selectedGroupIds \cup {groupId}
  /\ activeConfigId' = activeConfigId

handleGroupToggleMutAddOnly(groupId) ==
  /\ selectedGroupIds' = selectedGroupIds \cup {groupId}
  /\ activeConfigId' = 0

handleGroupToggle(groupId) ==
  /\ selectedGroupIds' = IF groupId \in selectedGroupIds
                         THEN selectedGroupIds \ {groupId}
                         ELSE selectedGroupIds \cup {groupId}
  /\ activeConfigId' = 0

\* chip onClick: () => !blocked && onGroupToggle(g.id); a blocked chip is
\* disabled and its click does nothing
ChipClickMutNoGuard(g) ==
  /\ ~error
  /\ g \in Ids(groups)
  /\ handleGroupToggle(g)
  /\ UNCHANGED <<groups, conflictMap, loading, configs, error, net, edits, srvVars, jobVars, pollVars, autoVars, gmVars>>

ChipClick(g) ==
  /\ ~error
  /\ g \in Ids(groups)
  /\ ~isBlocked(g)
  /\ handleGroupToggle(g)
  /\ UNCHANGED <<groups, conflictMap, loading, configs, error, net, edits, srvVars, jobVars, pollVars, autoVars, gmVars>>

\* requests in flight
Msg(type, cfgs, active) ==
  [type |-> type, phase |-> "sent", configs |-> cfgs, active |-> active, groups |-> <<>>]

RemoveAt(seq, i) == [k \in 1..(Len(seq) - 1) |-> IF k < i THEN seq[k] ELSE seq[k + 1]]

\* loadGroupData: setLoading(true), the four fetches are issued together
loadGroupData ==
  /\ loading' = TRUE
  /\ net' = Append(net, Msg("load", <<>>, 0))

\* GroupsSnapshot: the controls (chips, pills, save form) are rendered only
\* when there are groups
showControls == Len(groups) > 0

handleSelectConfigMutDropConflicts(c) ==
  /\ ~error
  /\ showControls
  /\ c \in 1..Len(configs)
  /\ Len(net) < MaxInFlight
  /\ posts < MaxPosts
  /\ posts' = posts + 1
  /\ selectedGroupIds' =
       {g \in configs[c].group_ids :
          \A h \in configs[c].group_ids :
            ~(g \in DOMAIN conflictMap /\ h \in conflictMap[g])}
  /\ activeConfigId' = configs[c].id
  /\ net' = Append(net, Msg("select", configs, configs[c].id))
  /\ UNCHANGED <<groups, conflictMap, loading, configs, error, edits, srvVars, jobVars, pollVars, autoVars,
                 accountsPending, accounts, gmSaving, gmNet>>

\* handleSelectConfig: set the selection and the pointer, then post (fire and forget)
handleSelectConfig(c) ==
  /\ ~error
  /\ showControls
  /\ c \in 1..Len(configs)
  /\ Len(net) < MaxInFlight
  /\ posts < MaxPosts
  /\ posts' = posts + 1
  /\ selectedGroupIds' = configs[c].group_ids
  /\ activeConfigId' = configs[c].id
  /\ net' = Append(net, Msg("select", configs, configs[c].id))
  /\ UNCHANGED <<groups, conflictMap, loading, configs, error, edits, srvVars, jobVars, pollVars, autoVars,
                 accountsPending, accounts, gmSaving, gmNet>>

\* handleSaveConfig: post the list with the current selection appended
handleSaveConfig ==
  /\ ~error
  /\ showControls
  /\ Len(net) < MaxInFlight
  /\ posts < MaxPosts
  /\ posts' = posts + 1
  /\ srvNextId + Cardinality({i \in 1..Len(net) :
                                net[i].type = "save" /\ net[i].phase = "sent"})
       <= Len(InitialConfigs) + MaxSaves
  /\ net' = Append(net, Msg("save",
                            Append(configs, [id |-> 0, group_ids |-> selectedGroupIds]),
                            activeConfigId))
  /\ UNCHANGED <<pageVars, edits, srvVars, jobVars, pollVars, autoVars,
                 accountsPending, accounts, gmSaving, gmNet>>

\* handleDeleteConfig: post the list without the configuration
handleDeleteConfig(c) ==
  /\ ~error
  /\ showControls
  /\ c \in 1..Len(configs)
  /\ Len(net) < MaxInFlight
  /\ posts < MaxPosts
  /\ posts' = posts + 1
  /\ LET configId == configs[c].id
         updated == SelectSeq(configs, LAMBDA x : x.id # configId)
         newActiveId == IF activeConfigId = configId THEN 0 ELSE activeConfigId
     IN net' = Append(net, Msg("delete", updated, newActiveId))
  /\ UNCHANGED <<pageVars, edits, srvVars, jobVars, pollVars, autoVars,
                 accountsPending, accounts, gmSaving, gmNet>>

\* --- backend endpoints ---------------------------------------------------
\* POST groups-configs: whole-collection replace; a configuration without an
\* id is given the next id
AssignIds(cfgs) ==
  [i \in 1..Len(cfgs) |-> IF cfgs[i].id = 0
                          THEN [cfgs[i] EXCEPT !.id = srvNextId]
                          ELSE cfgs[i]]

HasNew(cfgs) == \E i \in 1..Len(cfgs) : cfgs[i].id = 0

\* the server handles a request in flight; the fetches of a load are
\* separate requests: GET groups and GET groups-configs are answered one
\* after the other, in either order (phase "groups": only the groups have
\* been read, phase "configs": only the configurations)
ServerHandle(i) ==
  /\ i \in 1..Len(net)
  /\ net[i].phase # "done"
  /\ IF net[i].type = "load"
     THEN /\ \/ /\ net[i].phase \in {"sent", "configs"}
                /\ net' = [net EXCEPT
                            ![i].phase = IF net[i].phase = "sent" THEN "groups" ELSE "done",
                            ![i].groups = srvGroups]
             \/ /\ net[i].phase \in {"sent", "groups"}
                /\ net' = [net EXCEPT
                            ![i].phase = IF net[i].phase = "sent" THEN "configs" ELSE "done",
                            ![i].configs = srvConfigs, ![i].active = srvActive]
          /\ UNCHANGED srvVars
     ELSE /\ srvConfigs' = AssignIds(net[i].configs)
          /\ srvActive' = net[i].active
          /\ srvNextId' = IF HasNew(net[i].configs) THEN srvNextId + 1 ELSE srvNextId
          /\ net' = IF net[i].type = "select"
                    THEN RemoveAt(net, i)
                    ELSE [net EXCEPT ![i].phase = "done", ![i].configs = srvConfigs']
          /\ UNCHANGED srvGroups
  /\ UNCHANGED <<pageVars, edits, jobVars, pollVars, autoVars, gmVars>>

ApplyLoadMutAllWhenNone(g, cfgs, activeId) ==
  /\ groups' = g
  /\ conflictMap' = computeConflictMap(g)
  /\ configs' = cfgs
  /\ LET found == {k \in 1..Len(cfgs) : cfgs[k].id = activeId}
     IN /\ activeConfigId' = activeId
        /\ selectedGroupIds' =
             IF found # {}
             THEN cfgs[CHOOSE k \in found : \A m \in found : k <= m].group_ids
             ELSE Ids(g)
  /\ error' = FALSE

\* loadGroupData .then: install the data and restore the active selection
ApplyLoad(g, cfgs, activeId) ==
  /\ groups' = g
  /\ conflictMap' = computeConflictMap(g)
  /\ configs' = cfgs
  /\ LET found == {k \in 1..Len(cfgs) : cfgs[k].id = activeId}
     IN /\ activeConfigId' = activeId
        /\ selectedGroupIds' =
             IF found # {}
             THEN cfgs[CHOOSE k \in found : \A m \in found : k <= m].group_ids
             ELSE {}
  /\ error' = FALSE

LoadResponse(i) ==
  /\ i \in 1..Len(net)
  /\ net[i].type = "load"
  /\ net[i].phase = "done"
  /\ ApplyLoad(net[i].groups, net[i].configs, net[i].active)
  /\ loading' = FALSE
  /\ net' = RemoveAt(net, i)
  /\ UNCHANGED <<edits, srvVars, jobVars, pollVars, autoVars, gmVars>>

\* handleSaveConfig after the await: setConfigs(data.configs)
SaveResponse(i) ==
  /\ i \in 1..Len(net)
  /\ net[i].type = "save"
  /\ net[i].phase = "done"
  /\ configs' = net[i].configs
  /\ net' = RemoveAt(net, i)
  /\ UNCHANGED <<groups, conflictMap, loading, activeConfigId, selectedGroupIds, error,
                 edits, srvVars, jobVars, pollVars, autoVars, gmVars>>

\* handleDeleteConfig after the await
DeleteResponseMutClearSelection(i) ==
  /\ i \in 1..Len(net)
  /\ net[i].type = "delete"
  /\ net[i].phase = "done"
  /\ configs' = net[i].configs
  /\ activeConfigId' = net[i].active
  /\ selectedGroupIds' = {}
  /\ net' = RemoveAt(net, i)
  /\ UNCHANGED <<groups, conflictMap, loading, error,
                 edits, srvVars, jobVars, pollVars, autoVars, gmVars>>

DeleteResponse(i) ==
  /\ i \in 1..Len(net)
  /\ net[i].type = "delete"
  /\ net[i].phase = "done"
  /\ configs' = net[i].configs
  /\ activeConfigId' = net[i].active
  /\ net' = RemoveAt(net, i)
  /\ UNCHANGED <<groups, conflictMap, loading, selectedGroupIds, error,
                 edits, srvVars, jobVars, pollVars, autoVars, gmVars>>

\* if (error) return the error screen: GroupManager is unmounted, the next
\* one starts with saving false and the setters of the old one do nothing
ErrorScreen ==
  /\ gmSaving' = FALSE
  /\ gmNet' = [k \in 1..Len(gmNet) |-> [gmNet[k] EXCEPT !.live = FALSE]]

\* a request or its response is lost: load sets the error, the posts swallow it
RequestFailsMutRollback(i) ==
  /\ i \in 1..Len(net)
  /\ error' = IF net[i].type = "load" THEN TRUE ELSE error
  /\ net' = RemoveAt(net, i)
  /\ IF net[i].type = "select"
     THEN selectedGroupIds' = {} /\ activeConfigId' = 0
     ELSE UNCHANGED <<activeConfigId, selectedGroupIds>>
  /\ IF net[i].type = "load" THEN ErrorScreen ELSE UNCHANGED <<gmSaving, gmNet>>
  /\ loading' = IF net[i].type = "load" THEN FALSE ELSE loading
  /\ UNCHANGED <<groups, conflictMap, configs, accountsPending, accounts, posts,
                 edits, srvVars, jobVars, pollVars, autoVars>>

RequestFails(i) ==
  /\ i \in 1..Len(net)
  /\ error' = IF net[i].type = "load" THEN TRUE ELSE error
  /\ net' = RemoveAt(net, i)
  /\ IF net[i].type = "load" THEN ErrorScreen ELSE UNCHANGED <<gmSaving, gmNet>>
  /\ loading' = IF net[i].type = "load" THEN FALSE ELSE loading
  /\ UNCHANGED <<groups, conflictMap, configs, activeConfigId, selectedGroupIds,
                 accountsPending, accounts, posts, edits, srvVars, jobVars, pollVars, autoVars>>

\* the mount effect for the accounts summary: then(setAccounts)
AccountsLoaded ==
  /\ accountsPending
  /\ accountsPending' = FALSE
  /\ accounts' = SortedSeq(AccountIds)
  /\ UNCHANGED <<pageVars, net, edits, gmSaving, gmNet, posts, srvVars,
                 jobVars, pollVars, autoVars>>

\* the mount effect for the accounts summary: catch(setError)
AccountsFails ==
  /\ accountsPending
  /\ accountsPending' = FALSE
  /\ accounts' = accounts
  /\ error' = TRUE
  /\ ErrorScreen
  /\ UNCHANGED <<groups, conflictMap, loading, configs, activeConfigId, selectedGroupIds,
                 net, edits, posts, srvVars, jobVars, pollVars, autoVars>>

\* --- GroupManager ------------------------------------------------------
GMsg(type, gid, aids) ==
  [type |-> type, phase |-> "sent", gid |-> gid, aids |-> aids, ok |-> TRUE,
   live |-> TRUE]

\* GroupForm.handleSubmit: account_ids is [...selected]; selected starts as
\* the account ids of the edited group and each row of the picker (one per
\* account the page holds) toggles its id, an added id going to the end
FormLists(initial) ==
  {s \in UNION {[1..n -> Range(initial) \cup Range(accounts)] :
                  n \in 0..Cardinality(Range(initial) \cup Range(accounts))} :
     /\ \A i, j \in 1..Len(s) : i # j => s[i] # s[j]
     /\ accounts = <<>> => s = initial}

\* the section shows "Loading..." in place of GroupManager while the page
\* is loading and has no groups
GroupManagerShown == ~error /\ ~(loading /\ Len(groups) = 0)

\* the id the store gives the next new group
NewGroupId(gs) == IF gs = <<>> THEN 1 ELSE (CHOOSE m \in Ids(gs) : \A x \in Ids(gs) : x <= m) + 1

\* creations that have been sent and not yet stored
PostsPending == Cardinality({i \in 1..Len(gmNet) : gmNet[i].type = "post" /\ gmNet[i].phase = "sent"})

\* handleSave up to the await: updateGroup(mode.group.id, data) for the
\* form of a listed group, createGroup(data) for the form of a new group
\* (gid 0); the Save button is disabled while saving
handleSave(gid, aids) ==
  /\ GroupManagerShown
  /\ ~gmSaving
  /\ edits < MaxEdits
  /\ IF gid = 0
     THEN /\ aids \in FormLists(<<>>)
          /\ NewGroupId(srvGroups) + PostsPending <= MaxGroups
     ELSE \E k \in 1..Len(groups) : groups[k].id = gid /\ aids \in FormLists(groups[k].account_ids)
  /\ gmSaving' = TRUE
  /\ gmNet' = Append(gmNet, GMsg(IF gid = 0 THEN "post" ELSE "put", gid, aids))
  /\ edits' = edits + 1
  /\ UNCHANGED <<pageVars, net, accountsPending, accounts, posts, srvVars,
                 jobVars, pollVars, autoVars>>

\* handleDelete up to the await: deleteGroup(group.id)
handleDelete(gid) ==
  /\ GroupManagerShown
  /\ edits < MaxEdits
  /\ gid \in Ids(groups)
  /\ gmNet' = Append(gmNet, GMsg("del", gid, <<>>))
  /\ edits' = edits + 1
  /\ UNCHANGED <<pageVars, net, accountsPending, accounts, gmSaving, posts, srvVars,
                 jobVars, pollVars, autoVars>>

\* POST /api/groups and PUT / DELETE /api/groups/:id on the server; a
\* group that is not stored is answered with an error; the store answers
\* account ids in ascending order
ServeGroupRequest(i) ==
  /\ i \in 1..Len(gmNet)
  /\ gmNet[i].phase = "sent"
  /\ LET m == gmNet[i]
         at == {k \in 1..Len(srvGroups) : srvGroups[k].id = m.gid}
     IN IF m.type = "post"
        THEN /\ gmNet' = [gmNet EXCEPT ![i].phase = "done"]
             /\ srvGroups' = Append(srvGroups, [id |-> NewGroupId(srvGroups),
                                                account_ids |-> SortedSeq(Range(m.aids))])
        ELSE IF at = {}
        THEN /\ gmNet' = [gmNet EXCEPT ![i].phase = "done", ![i].ok = FALSE]
             /\ UNCHANGED srvGroups
        ELSE /\ gmNet' = [gmNet EXCEPT ![i].phase = "done"]
             /\ srvGroups' =
                  IF m.type = "put"
                  THEN [k \in 1..Len(srvGroups) |->
                          IF k \in at
                          THEN [srvGroups[k] EXCEPT !.account_ids = SortedSeq(Range(m.aids))]
                          ELSE srvGroups[k]]
                  ELSE SelectSeq(srvGroups, LAMBDA g : g.id # m.gid)
  /\ UNCHANGED <<pageVars, net, edits, accountsPending, accounts, gmSaving, posts,
                 srvConfigs, srvActive, srvNextId, jobVars, pollVars, autoVars>>

\* handleSave / handleDelete after the await resolved: onGroupsChanged(),
\* finally setSaving(false); with no groups on the page the reload puts
\* "Loading..." in the place of GroupManager, whose state is discarded
GroupRequestDone(i) ==
  /\ i \in 1..Len(gmNet)
  /\ gmNet[i].phase = "done"
  /\ gmNet[i].ok
  /\ Len(net) < MaxInFlight
  /\ loadGroupData
  /\ LET rest == RemoveAt(gmNet, i)
     IN IF Len(groups) = 0
        THEN /\ gmSaving' = FALSE
             /\ gmNet' = [k \in 1..Len(rest) |-> [rest[k] EXCEPT !.live = FALSE]]
        ELSE /\ gmSaving' = IF gmNet[i].type # "del" /\ gmNet[i].live THEN FALSE ELSE gmSaving
             /\ gmNet' = rest
  /\ UNCHANGED <<groups, conflictMap, configs, activeConfigId, selectedGroupIds, error,
                 edits, accountsPending, accounts, posts, srvVars, jobVars, pollVars, autoVars>>

\* handleSave / handleDelete after the await rejected (error answer, or the
\* request or its response was lost): GroupManager shows its own message
\* and nothing is reloaded
GroupRequestFails(i) ==
  /\ i \in 1..Len(gmNet)
  /\ gmSaving' = IF gmNet[i].type # "del" /\ gmNet[i].live THEN FALSE ELSE gmSaving
  /\ gmNet' = RemoveAt(gmNet, i)
  /\ UNCHANGED <<pageVars, net, edits, accountsPending, accounts, posts, srvVars,
                 jobVars, pollVars, autoVars>>

\* --- initial states --------------------------------------------------------
PageIdle ==
  /\ groups = <<>>
  /\ conflictMap = computeConflictMap(<<>>)
  /\ configs = <<>>
  /\ activeConfigId = 0
  /\ selectedGroupIds = {}
  /\ loading = TRUE
  /\ error = FALSE
  /\ edits = 0

GmIdle ==
  /\ accountsPending = FALSE
  /\ accounts = <<>>
  /\ gmSaving = FALSE
  /\ gmNet = <<>>
  /\ posts = 0

GroupsIdle ==
  /\ GmIdle
  /\ srvGroups = <<>>
  /\ srvConfigs = <<>>
  /\ srvActive = 0
  /\ srvNextId = 1
  /\ PageIdle
  /\ net = <<>>

\* GroupsPage after construction: empty state, the mount effect has issued
\* loadGroupData
PageMounted ==
  /\ groups = <<>>
  /\ conflictMap = computeConflictMap(<<>>)
  /\ configs = <<>>
  /\ activeConfigId = 0
  /\ selectedGroupIds = {}
  /\ loading = TRUE
  /\ error = FALSE
  /\ edits = 0
  /\ net = <<Msg("load", <<>>, 0)>>
  /\ accountsPending = TRUE
  /\ accounts = <<>>
  /\ gmSaving = FALSE
  /\ gmNet = <<>>
  /\ posts = 0

GroupsInit ==
  /\ srvGroups = InitialGroups
  /\ srvConfigs = InitialConfigs
  /\ srvActive \in {0, 1}
  /\ srvNextId = Len(InitialConfigs) + 1
  /\ PageMounted
  /\ JobInit
  /\ PollIdle
  /\ AutoIdle

GroupsNext ==
  \/ \E g \in GroupIds : ChipClick(g)
  \/ \E c \in 1..(Len(InitialConfigs) + MaxSaves) : handleSelectConfig(c)
  \/ handleSaveConfig
  \/ \E c \in 1..(Len(InitialConfigs) + MaxSaves) : handleDeleteConfig(c)
  \/ \E i \in 1..MaxInFlight : ServerHandle(i)
  \/ \E i \in 1..MaxInFlight : LoadResponse(i)
  \/ \E i \in 1..MaxInFlight : SaveResponse(i)
  \/ \E i \in 1..MaxInFlight : DeleteResponse(i)
  \/ \E i \in 1..MaxInFlight : RequestFails(i)
  \/ AccountsLoaded
  \/ AccountsFails
  \/ \E gid \in GroupIds \cup {0}, aids \in AccountLists : handleSave(gid, aids)
  \/ \E gid \in GroupIds : handleDelete(gid)
  \/ \E i \in 1..MaxEdits : ServeGroupRequest(i)
  \/ \E i \in 1..MaxEdits : GroupRequestDone(i)
  \/ \E i \in 1..MaxEdits : GroupRequestFails(i)

SpecGroups == GroupsInit /\ [][GroupsNext]_vars

\* The mount load answered with any stored data: any group collection (ids
\* ascending, account_ids ascending) and any stored configuration
AllGroupLists ==
  UNION {{[i \in 1..Len(ids) |-> [id |-> ids[i], account_ids |-> f[ids[i]]]] :
            f \in [Range(ids) -> AccountSeqs]} :
         ids \in {SortedSeq(S) : S \in SUBSET GroupIds}}

MaxConfigs == Len(InitialConfigs) + MaxSaves

\* the configuration lists the store can answer with: up to MaxConfigs
\* configurations, ids ascending, each with any set of group ids
AnyConfigLists ==
  UNION {{[k \in 1..Len(ids) |-> [id |-> ids[k], group_ids |-> f[k]]] :
            f \in [1..Len(ids) -> SUBSET GroupIds]} :
         ids \in {SortedSeq(S) : S \in SUBSET (1..MaxConfigs)}}

LoadAny(g, cfgs, activeId) ==
  /\ net # <<>>
  /\ net[1].type = "load"
  /\ ApplyLoad(g, cfgs, activeId)
  /\ loading' = FALSE
  /\ net' = RemoveAt(net, 1)
  /\ UNCHANGED <<edits, srvVars, jobVars, pollVars, autoVars, gmVars>>

LoadInit ==
  /\ JobInit
  /\ PollIdle
  /\ AutoIdle
  /\ srvGroups = <<>>
  /\ srvConfigs = <<>>
  /\ srvActive = 0
  /\ srvNextId = 1
  /\ PageMounted

\* the load of the mount answered with any stored data
LoadAnswered ==
  /\ net # <<>>
  /\ \E g \in AllGroupLists, cfgs \in AnyConfigLists, a \in 0..MaxConfigs : LoadAny(g, cfgs, a)

LoadNext ==
  \/ LoadAnswered
  \/ AccountsLoaded
  \/ AccountsFails
  \/ \E i \in {1} : RequestFails(i)

SpecLoad == LoadInit /\ [][LoadNext]_vars

Init == JobInit /\ GroupsIdle /\ PollIdle /\ AutoIdle
Next == JobNext
Spec == Init /\ [][Next]_vars

\* ============================================================ sync page
\* SyncControl: one row per entity of the canonical order
ENTITIES == {SYNC_ENTITY_ORDER[i] : i \in 1..Len(SYNC_ENTITY_ORDER)}

\* GET /api/sync/status/:id and GET /api/sync/history answer with job records
JobView(j) == [id |-> j, status |-> jobs[j].status]

HistoryLimit == 10

Min(a, b) == IF a <= b THEN a ELSE b

\* history(limit = 10): most recent first
fetchSyncHistory == [i \in 1..Min(Len(jobs), HistoryLimit) |-> JobView(Len(jobs) + 1 - i)]

\* a request of the sync page in flight (the error banner of the history
\* list only feeds the display and is not part of the state)
PMsg(type, job, entities) ==
  [type |-> type, phase |-> "sent", job |-> job, entities |-> entities,
   ok |-> TRUE, view |-> NullJob, list |-> <<>>]

InFlight == BagToSet(pnet)

Send(m) == pnet (+) SetToBag({m})

Drop(m) == pnet (-) SetToBag({m})

\* a state setter of an unmounted component has no effect
Shown(new, old) == IF mounted THEN new ELSE old

\* --- SyncPage.stopPolling / startPolling ---------------------------------
\* the live intervals once stopPolling has run
TimersAfterStop == IF pollRef # 0 THEN {t \in timers : t.id # pollRef} ELSE timers

stopPolling ==
  /\ timers' = TimersAfterStop
  /\ pollRef' = 0

NewTimerId(ts) == CHOOSE n \in 1..(Cardinality(ts) + 1) : \A t \in ts : t.id # n

startPollingMutNoStop(jobId) ==
  /\ timers' = timers \cup {[id |-> NewTimerId(timers), job |-> jobId]}
  /\ pollRef' = NewTimerId(timers)

startPolling(jobId) ==
  /\ timers' = TimersAfterStop \cup {[id |-> NewTimerId(TimersAfterStop), job |-> jobId]}
  /\ pollRef' = NewTimerId(TimersAfterStop)

\* --- SyncControl -----------------------------------------------------------
\* a click on an entity row
toggle(key) ==
  /\ mounted
  /\ clicks < MaxClicks
  /\ clicks' = clicks + 1
  /\ selected' = IF key \in selected THEN selected \ {key} ELSE selected \cup {key}
  /\ UNCHANGED <<mounted, history, displayedJob, isRunning, pollError, pollRef, timers,
                 isStarting, startError, pnet, jobVars, groupVars, autoVars>>

\* a click on "Select all" / "Deselect all"
selectAll ==
  /\ mounted
  /\ clicks < MaxClicks
  /\ clicks' = clicks + 1
  /\ selected' = IF selected = ENTITIES THEN {} ELSE ENTITIES
  /\ UNCHANGED <<mounted, history, displayedJob, isRunning, pollError, pollRef, timers,
                 isStarting, startError, pnet, jobVars, groupVars, autoVars>>

\* handleStart up to the await
handleStartMutNoStartingGuard ==
  /\ mounted
  /\ ~(isRunning \/ selected = {})
  /\ BagCardinality(pnet) < MaxFetches
  /\ isStarting' = TRUE
  /\ startError' = FALSE
  /\ pnet' = Send(PMsg("start", 0, selected))
  /\ UNCHANGED <<mounted, history, clicks, displayedJob, isRunning, pollError,
                 pollRef, timers, selected, jobVars, groupVars, autoVars>>

handleStart ==
  /\ mounted
  /\ ~(isRunning \/ selected = {} \/ isStarting)
  /\ BagCardinality(pnet) < MaxFetches
  /\ isStarting' = TRUE
  /\ startError' = FALSE
  /\ pnet' = Send(PMsg("start", 0, selected))
  /\ UNCHANGED <<mounted, history, clicks, displayedJob, isRunning, pollError,
                 pollRef, timers, selected, jobVars, groupVars, autoVars>>

\* POST /api/sync/start on the server: tryStart, 409 on the concurrency error
ServeStart(m) ==
  /\ m \in InFlight
  /\ m.type = "start"
  /\ m.phase = "sent"
  /\ Len(jobs) < MaxJobs \/ RunningJobs # {}
  /\ tryStart(m.entities, "manual")
  /\ pnet' = Send([m EXCEPT !.phase = "done",
                            !.ok = (startResp'.kind = "started"),
                            !.job = startResp'.job_id]) (-) SetToBag({m})
  /\ UNCHANGED <<readResp, groupVars, autoVars, mounted, history, clicks, displayedJob, isRunning,
                 pollError, pollRef, timers, selected, isStarting,
                 startError>>

\* SyncPage.handleSyncStarted, called from handleStart after the await
handleSyncStartedMutPlaceholder(jobId, m) ==
  /\ isRunning' = Shown(TRUE, isRunning)
  /\ displayedJob' = Shown([id |-> jobId, status |-> "running"], displayedJob)
  /\ startPolling(jobId)
  /\ pnet' = Send(PMsg("history", 0, {})) (-) SetToBag({m})

handleSyncStarted(jobId, m) ==
  /\ isRunning' = Shown(TRUE, isRunning)
  /\ displayedJob' = Shown(NullJob, displayedJob)
  /\ startPolling(jobId)
  /\ pnet' = Send(PMsg("history", 0, {})) (-) SetToBag({m})

\* handleStart after the await: onSyncStarted(data.job_id), finally
StartResponse(m) ==
  /\ m \in InFlight
  /\ m.type = "start"
  /\ m.phase = "done"
  /\ m.ok
  /\ handleSyncStarted(m.job, m)
  /\ isStarting' = Shown(FALSE, isStarting)
  /\ UNCHANGED <<mounted, history, clicks, pollError, selected, startError,
                 jobVars, groupVars, autoVars>>

\* handleStart catch: the server rejected the start
StartRejectedMutStillStarting(m) ==
  /\ m \in InFlight
  /\ m.type = "start"
  /\ m.phase = "done"
  /\ ~m.ok
  /\ startError' = Shown(TRUE, startError)
  /\ pnet' = Drop(m)
  /\ UNCHANGED <<mounted, history, clicks, displayedJob, isRunning, pollError, isStarting,
                 pollRef, timers, selected, jobVars, groupVars, autoVars>>

StartRejected(m) ==
  /\ m \in InFlight
  /\ m.type = "start"
  /\ m.phase = "done"
  /\ ~m.ok
  /\ startError' = Shown(TRUE, startError)
  /\ isStarting' = Shown(FALSE, isStarting)
  /\ pnet' = Drop(m)
  /\ UNCHANGED <<mounted, history, clicks, displayedJob, isRunning, pollError,
                 pollRef, timers, selected, jobVars, groupVars, autoVars>>

\* --- SyncPage polling --------------------------------------------------------
\* the interval callback up to the await: fetchSyncStatus(jobId)
Tick(t) ==
  /\ t \in timers
  /\ BagCardinality(pnet) < MaxFetches
  /\ pnet' = Send(PMsg("status", t.job, {}))
  /\ UNCHANGED <<mounted, history, clicks, displayedJob, isRunning, pollError,
                 pollRef, timers, selected, isStarting, startError, jobVars, groupVars, autoVars>>

ServeStatus(m) ==
  /\ m \in InFlight
  /\ m.type = "status"
  /\ m.phase = "sent"
  /\ pnet' = Send([m EXCEPT !.phase = "done", !.view = JobView(m.job)]) (-) SetToBag({m})
  /\ UNCHANGED <<mounted, history, clicks, displayedJob, isRunning, pollError,
                 pollRef, timers, selected, isStarting, startError, jobVars, groupVars, autoVars>>

\* the interval callback after the await
StatusResponseMutNoRefresh(m) ==
  /\ m \in InFlight
  /\ m.type = "status"
  /\ m.phase = "done"
  /\ displayedJob' = Shown(m.view, displayedJob)
  /\ IF m.view.status # "running"
     THEN /\ stopPolling
          /\ isRunning' = Shown(FALSE, isRunning)
          /\ pnet' = Drop(m)
     ELSE /\ pnet' = Drop(m)
          /\ UNCHANGED <<pollRef, timers, isRunning>>
  /\ UNCHANGED <<mounted, history, clicks, pollError, selected, isStarting,
                 startError, jobVars, groupVars, autoVars>>

StatusResponseMutKeepRunning(m) ==
  /\ m \in InFlight
  /\ m.type = "status"
  /\ m.phase = "done"
  /\ displayedJob' = Shown(m.view, displayedJob)
  /\ IF m.view.status # "running"
     THEN /\ stopPolling
          /\ pnet' = Send(PMsg("history", 0, {})) (-) SetToBag({m})
          /\ UNCHANGED isRunning
     ELSE /\ pnet' = Drop(m)
          /\ UNCHANGED <<pollRef, timers, isRunning>>
  /\ UNCHANGED <<mounted, history, clicks, pollError, selected, isStarting, startError, jobVars, groupVars, autoVars>>

StatusResponse(m) ==
  /\ m \in InFlight
  /\ m.type = "status"
  /\ m.phase = "done"
  /\ displayedJob' = Shown(m.view, displayedJob)
  /\ IF m.view.status # "running"
     THEN /\ stopPolling
          /\ isRunning' = Shown(FALSE, isRunning)
          /\ pnet' = Send(PMsg("history", 0, {})) (-) SetToBag({m})
     ELSE /\ pnet' = Drop(m)
          /\ UNCHANGED <<pollRef, timers, isRunning>>
  /\ UNCHANGED <<mounted, history, clicks, pollError, selected, isStarting,
                 startError, jobVars, groupVars, autoVars>>

\* --- SyncPage history ----------------------------------------------------------
ServeHistory(m) ==
  /\ m \in InFlight
  /\ m.type = "history"
  /\ m.phase = "sent"
  /\ pnet' = Send([m EXCEPT !.phase = "done", !.list = fetchSyncHistory]) (-) SetToBag({m})
  /\ UNCHANGED <<mounted, history, clicks, displayedJob, isRunning, pollError,
                 pollRef, timers, selected, isStarting, startError, jobVars, groupVars, autoVars>>

\* loadHistory after the await
HistoryResponseMutNoPoll(m) ==
  /\ m \in InFlight
  /\ m.type = "history"
  /\ m.phase = "done"
  /\ IF Len(m.list) > 0 /\ m.list[1].status = "running" /\ pollRef = 0
     THEN /\ displayedJob' = Shown(m.list[1], displayedJob)
          /\ isRunning' = Shown(TRUE, isRunning)
          /\ UNCHANGED <<pollRef, timers>>
     ELSE UNCHANGED <<displayedJob, isRunning, pollRef, timers>>
  /\ history' = Shown(m.list, history)
  /\ pnet' = Drop(m)
  /\ UNCHANGED <<mounted, clicks, pollError, selected, isStarting, startError, jobVars, groupVars, autoVars>>

HistoryResponse(m) ==
  /\ m \in InFlight
  /\ m.type = "history"
  /\ m.phase = "done"
  /\ IF Len(m.list) > 0 /\ m.list[1].status = "running" /\ pollRef = 0
     THEN /\ displayedJob' = Shown(m.list[1], displayedJob)
          /\ isRunning' = Shown(TRUE, isRunning)
          /\ startPolling(m.list[1].id)
     ELSE UNCHANGED <<displayedJob, isRunning, pollRef, timers>>
  /\ history' = Shown(m.list, history)
  /\ pnet' = Drop(m)
  /\ UNCHANGED <<mounted, clicks, pollError, selected, isStarting, startError, jobVars, groupVars, autoVars>>

\* SyncHistory: a click on a row of the table calls onSelectJob(job), which
\* is setDisplayedJob
onSelectJob(k) ==
  /\ mounted
  /\ k \in 1..Len(history)
  /\ displayedJob' = history[k]
  /\ UNCHANGED <<mounted, history, clicks, isRunning, pollError, pollRef, timers, selected,
                 isStarting, startError, pnet, jobVars, groupVars, autoVars>>

\* a request or its response is lost: the catch branch of its caller runs
FetchFailsMutGiveUp(m) ==
  /\ m \in InFlight
  /\ pollError' = IF m.type = "status" THEN Shown(TRUE, pollError) ELSE pollError
  /\ startError' = IF m.type = "start" THEN Shown(TRUE, startError) ELSE startError
  /\ isStarting' = IF m.type = "start" THEN Shown(FALSE, isStarting) ELSE isStarting
  /\ pnet' = Drop(m)
  /\ IF m.type = "status"
     THEN /\ stopPolling
          /\ isRunning' = Shown(FALSE, isRunning)
          /\ displayedJob' = Shown([displayedJob EXCEPT !.status = "failed"], displayedJob)
     ELSE UNCHANGED <<displayedJob, isRunning, pollRef, timers>>
  /\ UNCHANGED <<mounted, history, clicks, selected, jobVars, groupVars, autoVars>>

FetchFails(m) ==
  /\ m \in InFlight
  /\ pollError' = IF m.type = "status" THEN Shown(TRUE, pollError) ELSE pollError
  /\ startError' = IF m.type = "start" THEN Shown(TRUE, startError) ELSE startError
  /\ isStarting' = IF m.type = "start" THEN Shown(FALSE, isStarting) ELSE isStarting
  /\ pnet' = Drop(m)
  /\ UNCHANGED <<mounted, history, clicks, displayedJob, isRunning, pollRef, timers, selected,
                 jobVars, groupVars, autoVars>>

\* unmount: the cleanup of the mount effect runs and the state of the two
\* components is discarded; pollRef and the requests in flight live on in
\* the closures that hold them
Unmount ==
  /\ mounted
  /\ mounted' = FALSE
  /\ stopPolling
  /\ displayedJob' = NullJob
  /\ history' = <<>>
  /\ isRunning' = FALSE
  /\ pollError' = FALSE
  /\ selected' = {}
  /\ isStarting' = FALSE
  /\ startError' = FALSE
  /\ UNCHANGED <<pnet, clicks, jobVars, groupVars, autoVars>>

\* SyncPage and SyncControl after the first render: the mount effect has
\* called loadHistory
PollInit ==
  /\ JobInit
  /\ GroupsIdle
  /\ AutoIdle
  /\ mounted = TRUE
  /\ displayedJob = NullJob
  /\ history = <<>>
  /\ clicks = 0
  /\ isRunning = FALSE
  /\ pollError = FALSE
  /\ pollRef = 0
  /\ timers = {}
  /\ selected = ENTITIES
  /\ isStarting = FALSE
  /\ startError = FALSE
  /\ pnet = SetToBag({PMsg("history", 0, {})})

PollNext ==
  \/ handleStart
  \/ \E m \in InFlight : ServeStart(m)
  \/ \E m \in InFlight : StartResponse(m)
  \/ \E m \in InFlight : StartRejected(m)
  \/ \E t \in timers : Tick(t)
  \/ \E m \in InFlight : ServeStatus(m)
  \/ \E m \in InFlight : StatusResponse(m)
  \/ \E m \in InFlight : ServeHistory(m)
  \/ \E m \in InFlight : HistoryResponse(m)
  \/ \E m \in InFlight : FetchFails(m)
  \/ \E k \in 1..MaxJobs : onSelectJob(k)
  \/ Unmount
  \/ Start(ENTITIES, "scheduled")
  \/ \E j \in 1..MaxJobs : RunEntity(j, "success")
  \/ \E j \in 1..MaxJobs : FinishJob(j)
  \/ \E j \in 1..MaxJobs : JobLevelFailure(j)

SpecPoll == PollInit /\ [][PollNext]_vars

\* the same page with the entity rows of the control in use, so that the
\* selection the start button reads can be anything
ControlNext ==
  \/ \E key \in ENTITIES : toggle(key)
  \/ selectAll
  \/ PollNext

SpecControl == PollInit /\ [][ControlNext]_vars

\* the same page under the scheduling the claims about progress assume: the
\* runner finishes its job, the interval keeps firing, and status fetches
\* and history loads are answered and delivered again and again
PollFairness ==
  /\ WF_vars(\E j \in 1..MaxJobs : RunEntity(j, "success"))
  /\ WF_vars(\E j \in 1..MaxJobs : FinishJob(j))
  /\ SF_vars(\E t \in timers : Tick(t))
  /\ SF_vars(\E m \in InFlight : ServeStatus(m))
  /\ SF_vars(\E m \in InFlight : StatusResponse(m))
  /\ WF_vars(\E m \in InFlight : ServeHistory(m))
  /\ WF_vars(\E m \in InFlight : HistoryResponse(m))

SpecPollLive == PollInit /\ [][PollNext]_vars /\ PollFairness

\* ================================================ auto sync settings
\* the intervals the selector offers, in hours (0 = disabled)
INTERVAL_OPTIONS == {0, 1, 2, 4, 6, 12, 24}

\* a request of the settings card in flight
AMsg(type, val, prev) ==
  [type |-> type, phase |-> "sent", val |-> val, prev |-> prev, ok |-> TRUE]

AInFlight == BagToSet(anet)

\* the save requests of the card that are outstanding
SavesOutstanding ==
  LET S == {m \in AInFlight : m.type = "save"}
  IN  BagCardinality([m \in S |-> anet[m]])

\* --- AutoSyncSettings ------------------------------------------------------
\* handleIntervalChange up to the await; the select is disabled while saving
handleIntervalChange(val) ==
  /\ ~saving
  /\ BagCardinality(anet) < MaxFetches
  /\ val # syncInterval
  /\ syncInterval' = val
  /\ saving' = TRUE
  /\ settingsError' = FALSE
  /\ anet' = anet (+) SetToBag({AMsg("save", val, syncInterval)})
  /\ UNCHANGED <<srvInterval, sinceFire, jobVars, groupVars, pollVars>>

\* GET /api/settings on the server
ServeSettingsGet(m) ==
  /\ m \in AInFlight
  /\ m.type = "load"
  /\ m.phase = "sent"
  /\ anet' = (anet (-) SetToBag({m}))
               (+) SetToBag({[m EXCEPT !.phase = "done", !.val = srvInterval]})
  /\ UNCHANGED <<srvInterval, sinceFire, syncInterval, saving, settingsError,
                 jobVars, groupVars, pollVars>>

\* POST /api/settings on the server: the setting is stored and the scheduler
\* is set to the new interval
ServeSettingsSave(m) ==
  /\ m \in AInFlight
  /\ m.type = "save"
  /\ m.phase = "sent"
  /\ srvInterval' = m.val
  /\ sinceFire' = 0
  /\ anet' = (anet (-) SetToBag({m})) (+) SetToBag({[m EXCEPT !.phase = "done"]})
  /\ UNCHANGED <<syncInterval, saving, settingsError, jobVars, groupVars, pollVars>>

\* the mount effect after fetchSettings resolved
SettingsLoaded(m) ==
  /\ m \in AInFlight
  /\ m.type = "load"
  /\ m.phase = "done"
  /\ syncInterval' = m.val
  /\ anet' = anet (-) SetToBag({m})
  /\ UNCHANGED <<srvInterval, sinceFire, saving, settingsError,
                 jobVars, groupVars, pollVars>>

\* the mount effect after fetchSettings rejected
SettingsLoadFails(m) ==
  /\ m \in AInFlight
  /\ m.type = "load"
  /\ settingsError' = TRUE
  /\ anet' = anet (-) SetToBag({m})
  /\ UNCHANGED <<srvInterval, sinceFire, syncInterval, saving,
                 jobVars, groupVars, pollVars>>

\* handleIntervalChange after the await resolved: finally
SaveSettled(m) ==
  /\ m \in AInFlight
  /\ m.type = "save"
  /\ m.phase = "done"
  /\ saving' = FALSE
  /\ anet' = anet (-) SetToBag({m})
  /\ UNCHANGED <<srvInterval, sinceFire, syncInterval, settingsError,
                 jobVars, groupVars, pollVars>>

\* handleIntervalChange after the await rejected (server error, or the
\* request or its response was lost): catch, finally
SaveFailsMutNoRevert(m) ==
  /\ m \in AInFlight
  /\ m.type = "save"
  /\ settingsError' = TRUE
  /\ saving' = FALSE
  /\ anet' = anet (-) SetToBag({m})
  /\ UNCHANGED <<srvInterval, sinceFire, syncInterval, jobVars, groupVars, pollVars>>

SaveFails(m) ==
  /\ m \in AInFlight
  /\ m.type = "save"
  /\ syncInterval' = m.prev
  /\ settingsError' = TRUE
  /\ saving' = FALSE
  /\ anet' = anet (-) SetToBag({m})
  /\ UNCHANGED <<srvInterval, sinceFire, jobVars, groupVars, pollVars>>

\* --- scheduler ---------------------------------------------------------------
\* an hour passes on the scheduler's clock
HourPasses ==
  /\ srvInterval > 0
  /\ sinceFire < srvInterval
  /\ sinceFire' = sinceFire + 1
  /\ UNCHANGED <<srvInterval, syncInterval, saving, settingsError, anet,
                 jobVars, groupVars, pollVars>>

\* the interval has elapsed: the scheduler calls start once, through
\* tryStart, and waits for the next interval whatever the outcome
ScheduledFireMutRetry ==
  /\ srvInterval > 0
  /\ sinceFire = srvInterval
  /\ Len(jobs) < MaxJobs \/ RunningJobs # {}
  /\ tryStart(ENTITIES, "scheduled")
  /\ sinceFire' = IF RunningJobs # {} THEN sinceFire ELSE 0
  /\ UNCHANGED <<readResp, srvInterval, syncInterval, saving, settingsError, anet,
                 groupVars, pollVars>>

ScheduledFire ==
  /\ srvInterval > 0
  /\ sinceFire = srvInterval
  /\ Len(jobs) < MaxJobs \/ RunningJobs # {}
  /\ tryStart(ENTITIES, "scheduled")
  /\ sinceFire' = 0
  /\ UNCHANGED <<readResp, srvInterval, syncInterval, saving, settingsError, anet,
                 groupVars, pollVars>>

\* the settings card after its first render (the mount effect has called
\* fetchSettings), over any stored interval
AutoInit ==
  /\ JobInit
  /\ GroupsIdle
  /\ PollIdle
  /\ srvInterval \in INTERVAL_OPTIONS
  /\ sinceFire = 0
  /\ syncInterval = 0
  /\ saving = FALSE
  /\ settingsError = FALSE
  /\ anet = SetToBag({AMsg("load", 0, 0)})

AutoNext ==
  \/ \E val \in INTERVAL_OPTIONS : handleIntervalChange(val)
  \/ \E m \in AInFlight : ServeSettingsGet(m)
  \/ \E m \in AInFlight : ServeSettingsSave(m)
  \/ \E m \in AInFlight : SettingsLoaded(m)
  \/ \E m \in AInFlight : SettingsLoadFails(m)
  \/ \E m \in AInFlight : SaveSettled(m)
  \/ \E m \in AInFlight : SaveFails(m)
  \/ HourPasses
  \/ ScheduledFire
  \/ Start(ENTITIES, "manual")
  \/ \E j \in 1..MaxJobs : RunEntity(j, "success")
  \/ \E j \in 1..MaxJobs : FinishJob(j)
  \/ \E j \in 1..MaxJobs : JobLevelFailure(j)

SpecAuto == AutoInit /\ [][AutoNext]_vars

\* =========================================================== properties
JobIds == 1..Len(jobs)

Terminal(j) == jobs[j].status \in TerminalStatuses

AllAre(j, st) == \A e \in DOMAIN jobs[j].results : jobs[j].results[e] = st

\* C1: at most one SyncJob has status running in every reachable state of
\* the Job Store, whatever the interleaving of manual and scheduled starts.
C1_AtMostOneRunning == Cardinality(RunningJobs) <= 1

\* a scheduled fire was rejected while the second job of the store runs
C1_Witness ==
  /\ Len(jobs) = 2
  /\ RunningJobs = {2}
  /\ startResp.kind = "concurrency_error"
  /\ startResp.origin = "scheduled"

\* C2: every start call made while a job is running returns the concurrency
\* error, creates no job record and leaves the Job Store unchanged, however
\* often it is repeated.
C2_StartWhileRunningRejected ==
  [][\A es \in RequestSets, o \in Origins :
       (RunningJobs # {} /\ Start(es, o)) =>
         /\ jobs' = jobs
         /\ startResp'.kind = "concurrency_error"
         /\ startResp'.job_id = 0]_vars

\* a manual start was rejected while the only job, already holding a
\* result, is still running
C2_Witness ==
  /\ Len(jobs) = 1
  /\ RunningJobs = {1}
  /\ jobs[1].attempted # <<>>
  /\ startResp.kind = "concurrency_error"
  /\ startResp.origin = "manual"

ResultsComplete(j) == DOMAIN jobs[j].results = jobs[j].entities

AggregateRule(j) ==
  /\ (jobs[j].status = "success") <=> AllAre(j, "success")
  /\ (jobs[j].status = "failed") <=> AllAre(j, "failed")
  /\ (jobs[j].status = "partial") <=> (~AllAre(j, "success") /\ ~AllAre(j, "failed"))

\* C3 as stated: every terminal job with N requested entities has exactly N
\* EntityResults and its status is success iff all are success, failed iff
\* all are failed, partial otherwise.
C3_Original ==
  \A j \in JobIds : Terminal(j) => (ResultsComplete(j) /\ AggregateRule(j))

\* C3 amended: the same, for every terminal job that carries no job-level
\* error.
C3_TerminalResultsAndAggregate ==
  \A j \in JobIds :
    (Terminal(j) /\ jobs[j].error = "null") => (ResultsComplete(j) /\ AggregateRule(j))

\* a two-entity job finished partial from one partial and one failed result
C3_Witness ==
  \E j \in JobIds :
    /\ Terminal(j)
    /\ jobs[j].error = "null"
    /\ Cardinality(jobs[j].entities) = 2
    /\ jobs[j].status = "partial"
    /\ \E e \in jobs[j].entities : jobs[j].results[e] = "failed"
    /\ \E e \in jobs[j].entities : jobs[j].results[e] = "partial"

\* C4: a job starts at running, finished_at is null exactly while it is
\* running, and once terminal its status is never changed by any operation.
C4_StatusLifecycle ==
  /\ [](\A j \in JobIds : (jobs[j].finished_at = "null") <=> (jobs[j].status = "running"))
  /\ [][\A j \in JobIds : Terminal(j) =>
           (j \in 1..Len(jobs') /\ jobs'[j].status = jobs[j].status)]_vars
  /\ [][\A k \in 1..Len(jobs') : k \notin JobIds => jobs'[k].status = "running"]_vars

\* a terminal job was polled after a later job had been started
C4_Witness ==
  /\ Len(jobs) = 2
  /\ Terminal(1)
  /\ jobs[1].finished_at = "set"
  /\ readResp.kind = "job"
  /\ readResp.job_id = 1
  /\ readResp.status = jobs[1].status

InCanonicalOrder(seq) ==
  \A a, b \in 1..Len(seq) : a < b => OrderIndex(seq[a]) < OrderIndex(seq[b])

Attempted(j) == {jobs[j].attempted[i] : i \in 1..Len(jobs[j].attempted)}

\* C5 as stated: entities are attempted one at a time in canonical order and
\* every requested entity has been attempted when the job is terminal.
C5_Original ==
  \A j \in JobIds :
    /\ InCanonicalOrder(jobs[j].attempted)
    /\ Terminal(j) => Attempted(j) = jobs[j].entities

\* C5 amended: entities are attempted one at a time in canonical order, a
\* failed result never stops the loop, and every requested entity has been
\* attempted when the job is terminal, unless the job failed at job level
\* before any entity was attempted.
C5_SequentialCanonicalNoAbort ==
  /\ [](\A j \in JobIds :
          /\ InCanonicalOrder(jobs[j].attempted)
          /\ Attempted(j) \subseteq jobs[j].entities
          /\ (Terminal(j) /\ jobs[j].error = "null") => Attempted(j) = jobs[j].entities)
  /\ [][\A j \in JobIds : j \in 1..Len(jobs') =>
           Len(jobs'[j].attempted) <= Len(jobs[j].attempted) + 1]_vars

\* the first entity failed and the second was still attempted
C5_Witness ==
  \E j \in JobIds :
    /\ Terminal(j)
    /\ Len(jobs[j].attempted) = 2
    /\ jobs[j].results[jobs[j].attempted[1]] = "failed"
    /\ jobs[j].results[jobs[j].attempted[2]] = "success"


\* ------------------------------------------------- selection properties
ConflictsIn(g) == IF g \in DOMAIN conflictMap THEN conflictMap[g] ELSE {}

ConflictFree(sel) == \A a \in sel, b \in sel : b \notin ConflictsIn(a)

Chips == IF error THEN {} ELSE Ids(groups)

\* C6: for every selection and every conflict map, isBlocked(g) is false for
\* every selected g, also when groups conflicting with g are selected too.
C6_SelectedNeverBlocked == \A g \in selectedGroupIds : ~isBlocked(g)

\* three selected groups, 1 conflicts with 2 and 2 with 3 but not 1 with 3
C6_Witness ==
  /\ selectedGroupIds = {1, 2, 3}
  /\ 2 \in ConflictsIn(1)
  /\ 3 \in ConflictsIn(2)
  /\ 3 \notin ConflictsIn(1)
  /\ ~isBlocked(1) /\ ~isBlocked(2) /\ ~isBlocked(3)

\* C7: in every reachable state of the page the chip of every selected group
\* accepts a click, and that click removes exactly that group.
C7_SelectedAlwaysDeselectable ==
  /\ [](\A g \in Chips \cap selectedGroupIds : ENABLED ChipClick(g))
  /\ [][\A g \in GroupIds :
           (g \in selectedGroupIds /\ ChipClick(g)) =>
             selectedGroupIds' = selectedGroupIds \ {g}]_vars

\* a restored configuration held two conflicting groups and one of them was
\* removed by its chip
C7_Witness ==
  \E c \in 1..Len(configs) : \E g \in configs[c].group_ids :
    /\ g \in Chips
    /\ selectedGroupIds = configs[c].group_ids \ {g}
    /\ \E h \in selectedGroupIds : g \in ConflictsIn(h) /\ h \in ConflictsIn(g)
    /\ activeConfigId = 0
    /\ edits > 0

\* C8: a chip click on an unselected group adds it only if no group of its
\* conflict set is selected; a blocked chip accepts no click, so nothing
\* changes.
C8_ToggleAddsOnlyUnblocked ==
  /\ [](\A g \in Chips \ selectedGroupIds :
          (ConflictsIn(g) \cap selectedGroupIds # {}) => ~ENABLED ChipClick(g))
  /\ [][\A g \in GroupIds :
           (g \notin selectedGroupIds /\ ChipClick(g)) =>
             /\ ConflictsIn(g) \cap selectedGroupIds = {}
             /\ selectedGroupIds' = selectedGroupIds \cup {g}]_vars

\* two compatible groups are selected and the chip of a third is blocked
C8_Witness ==
  /\ Cardinality(selectedGroupIds) = 2
  /\ ConflictFree(selectedGroupIds)
  /\ \E g \in Chips \ selectedGroupIds : isBlocked(g)

\* C9 as stated: at every save the current selection holds no two groups
\* that conflict under the current conflict map.
C9_Original ==
  [][handleSaveConfig => ConflictFree(selectedGroupIds)]_vars

\* C9 amended: at every save the current selection holds no two groups that
\* conflict under the current conflict map, provided no group has been
\* edited or deleted since the stored configurations were saved.
C9_SaveConflictFreeWithoutEdits ==
  [][(handleSaveConfig /\ edits = 0) => ConflictFree(selectedGroupIds)]_vars

\* a save of a two-group selection is in flight and no group was edited
C9_Witness ==
  /\ edits = 0
  /\ \E i \in 1..Len(net) :
       /\ net[i].type = "save"
       /\ \E k \in 1..Len(net[i].configs) :
            /\ net[i].configs[k].id = 0
            /\ Cardinality(net[i].configs[k].group_ids) = 2
            /\ net[i].configs[k].group_ids = selectedGroupIds

\* C10: the conflict map is symmetric: B in conflicts(A) implies A in
\* conflicts(B).
C10_ConflictMapSymmetric ==
  \A a \in DOMAIN conflictMap : \A b \in conflictMap[a] :
    b \in DOMAIN conflictMap /\ a \in conflictMap[b]

\* one group conflicts with two others that do not conflict with each other
C10_Witness ==
  \E a, b, c \in DOMAIN conflictMap :
    /\ conflictMap[a] = {b, c}
    /\ b # c
    /\ c \notin conflictMap[b]
    /\ conflictMap = computeConflictMap(groups)

\* the account ids of a group of the current list
AccountsOf(gid) ==
  UNION {Range(groups[i].account_ids) : i \in {k \in 1..Len(groups) : groups[k].id = gid}}

\* C11: the conflict map has an entry for every group, and conflicts(A) is
\* exactly the set of groups B other than A whose account ids intersect A's;
\* no group is in its own conflict set, and a group without accounts or
\* without overlap maps to the empty set.
C11_ConflictMapExact ==
  /\ DOMAIN conflictMap = Ids(groups)
  /\ \A a \in Ids(groups) :
       /\ conflictMap[a] = {b \in Ids(groups) : b # a /\ AccountsOf(a) \cap AccountsOf(b) # {}}
       /\ a \notin conflictMap[a]
       /\ AccountsOf(a) = {} => conflictMap[a] = {}

\* three groups: two overlap, the third has no accounts
C11_Witness ==
  /\ Len(groups) = 3
  /\ \E a, b, c \in Ids(groups) :
       /\ conflictMap[a] = {b}
       /\ conflictMap[b] = {a}
       /\ AccountsOf(a) # AccountsOf(b)
       /\ AccountsOf(c) = {}
       /\ conflictMap[c] = {}

\* the scenario's groups: A = 1 and C = 3 share account 1, B = 2 is apart
ScenarioLoaded == groups = InitialGroups /\ ~error

\* C12: with groups A, B, C where only A and C share an account, from the
\* empty selection: toggle A gives {A} with C blocked and B not; toggle B
\* gives {A,B}; the chip of C then accepts no click; toggle A gives {B} with
\* C no longer blocked.
C12_ScenarioABC ==
  /\ []((ScenarioLoaded /\ selectedGroupIds = {1}) => (isBlocked(3) /\ ~isBlocked(2)))
  /\ []((ScenarioLoaded /\ selectedGroupIds = {1, 2}) => ~ENABLED ChipClick(3))
  /\ []((ScenarioLoaded /\ selectedGroupIds = {2}) => ~isBlocked(3))
  /\ [][(ScenarioLoaded /\ selectedGroupIds = {} /\ ChipClick(1)) =>
          selectedGroupIds' = {1}]_vars
  /\ [][(ScenarioLoaded /\ selectedGroupIds = {1} /\ ChipClick(2)) =>
          selectedGroupIds' = {1, 2}]_vars
  /\ [][(ScenarioLoaded /\ selectedGroupIds = {1, 2} /\ ChipClick(1)) =>
          selectedGroupIds' = {2}]_vars

\* the end of the scenario: only B is selected, by chip clicks, nothing edited
C12_Witness ==
  /\ ScenarioLoaded
  /\ edits = 0
  /\ srvActive = 0
  /\ activeConfigId = 0
  /\ selectedGroupIds = {2}
  /\ ~isBlocked(3)
  /\ ENABLED ChipClick(3)

\* C13: after selectConfig(cfg) the selection equals cfg.group_ids as a set,
\* whatever the previous selection and whether or not those groups conflict.
C13_SelectConfigRoundTrip ==
  [][\A c \in 1..(Len(InitialConfigs) + MaxSaves) :
       handleSelectConfig(c) => selectedGroupIds' = configs[c].group_ids]_vars

\* a configuration whose groups conflict has just been selected
C13_Witness ==
  /\ \E i \in 1..Len(net) : net[i].type = "select" /\ net[i].active = activeConfigId
  /\ \E c \in 1..Len(configs) :
       /\ configs[c].id = activeConfigId
       /\ selectedGroupIds = configs[c].group_ids
       /\ ~ConflictFree(selectedGroupIds)

\* the selection a load response restores
RestoredSelection(cfgs, activeId) ==
  IF \E k \in 1..Len(cfgs) : cfgs[k].id = activeId
  THEN cfgs[CHOOSE k \in 1..Len(cfgs) : cfgs[k].id = activeId].group_ids
  ELSE {}

\* C14: the selection is the empty set at page creation; after each load it
\* is the group ids of the stored active configuration if there is one and
\* the empty set otherwise; it is always an explicit set of group ids.
C14_LoadRestoresSelection ==
  /\ selectedGroupIds = {}
  /\ [](selectedGroupIds \in SUBSET GroupIds)
  /\ [][\A i \in 1..MaxInFlight : LoadResponse(i) =>
          selectedGroupIds' = RestoredSelection(net[i].configs, net[i].active)]_vars

\* the reload after a group edit found no active configuration and left the
\* selection empty
C14_Witness ==
  /\ edits > 0
  /\ net = <<>>
  /\ gmNet = <<>>
  /\ groups # InitialGroups
  /\ ~error
  /\ groups # <<>>
  /\ configs # <<>>
  /\ activeConfigId = 0
  /\ selectedGroupIds = {}
  /\ groups = srvGroups

\* ------------------------------------------------- poll client properties
\* the messages a step can deliver
AnyMsg == InFlight

\* number of history requests in a bag of requests
HistoryRequests(b) ==
  BagCardinality([m \in {x \in BagToSet(b) : x.type = "history"} |-> b[m]])

\* the client is polling job j
Polling(j) == pollRef # 0 /\ \E t \in timers : t.id = pollRef /\ t.job = j

\* C15 as stated: on a successful submission the client is polling at once
\* and holds a placeholder record with the new job id and status running.
C15_Original ==
  [][\A m \in AnyMsg :
       (mounted /\ StartResponse(m)) =>
         /\ isRunning'
         /\ pollRef' # 0
         /\ displayedJob' = [id |-> m.job, status |-> "running"]]_vars

\* C15 amended: on a successful submission the client is polling the new job
\* at once (isRunning true, one timer for the new job id) and the held job
\* record is cleared to null; no placeholder record is synthesized.
C15_SubmitStartsPollingNullRecord ==
  [][\A m \in AnyMsg :
       (mounted /\ StartResponse(m)) =>
         /\ isRunning'
         /\ pollRef' # 0
         /\ timers' = {[id |-> pollRef', job |-> m.job]}
         /\ displayedJob' = NullJob]_vars

\* a sync was just submitted: polling, no record held, history refresh sent
C15_Witness ==
  /\ mounted
  /\ isRunning
  /\ displayedJob = NullJob
  /\ \E j \in JobIds : Polling(j) /\ jobs[j].status = "running"
  /\ \E m \in InFlight : m.type = "history" /\ m.phase = "sent"
  /\ ~isStarting

\* C16: while polling, a status response replaces the held record; if its
\* status is running the timer stays and the client keeps polling; if it is
\* terminal the timer is stopped, isRunning becomes false and exactly one
\* history request is issued.
C16_StatusResponseStep ==
  [][\A m \in AnyMsg :
       (mounted /\ pollRef # 0 /\ StatusResponse(m)) =>
         /\ displayedJob' = m.view
         /\ IF m.view.status = "running"
            THEN /\ pollRef' = pollRef
                 /\ timers' = timers
                 /\ isRunning' = isRunning
                 /\ HistoryRequests(pnet') = HistoryRequests(pnet)
            ELSE /\ pollRef' = 0
                 /\ timers' = {}
                 /\ ~isRunning'
                 /\ HistoryRequests(pnet') = HistoryRequests(pnet) + 1]_vars

\* the job completed: the record is terminal, nothing polls, the control is
\* free and the history refresh is on its way
C16_Witness ==
  /\ mounted
  /\ displayedJob.status \in TerminalStatuses
  /\ pollRef = 0
  /\ timers = {}
  /\ ~isRunning
  /\ HistoryRequests(pnet) = 1
  /\ jobs[displayedJob.id].status = displayedJob.status

\* C17: a failed status fetch while polling changes nothing but the notice:
\* the timer stays, isRunning stays true, the held record is untouched, and
\* the next tick can fetch again.
C17_PollFailureKeepsPolling ==
  [][\A m \in AnyMsg :
       (mounted /\ pollRef # 0 /\ m.type = "status" /\ FetchFails(m)) =>
         /\ pollRef' = pollRef
         /\ timers' = timers
         /\ isRunning /\ isRunning'
         /\ displayedJob' = displayedJob
         /\ pollError'
         /\ \E t \in timers' : t.id = pollRef' /\ BagCardinality(pnet') < MaxFetches]_vars

\* the notice is up while the client still polls a running record
C17_Witness ==
  /\ mounted
  /\ pollError
  /\ pollRef # 0
  /\ isRunning
  /\ displayedJob.status = "running"
  /\ \E t \in timers : ENABLED Tick(t)

\* C18: at most one poll timer is live, it is the one pollRef names, and a
\* history response resumes polling only when no poll is active.
C18_AtMostOneTimer ==
  /\ [](Cardinality(timers) <= 1)
  /\ [](\A t \in timers : t.id = pollRef)
  /\ [][\A m \in AnyMsg :
          (pollRef # 0 /\ HistoryResponse(m)) =>
            (pollRef' = pollRef /\ timers' = timers)]_vars
  /\ [][\A m \in AnyMsg :
          (pollRef = 0 /\ timers' # timers /\ HistoryResponse(m)) =>
            (m.list[1].status = "running" /\ timers' = {[id |-> pollRef', job |-> m.list[1].id]})]_vars

\* polling was resumed from a history load for a job the page did not start
C18_Witness ==
  /\ mounted
  /\ Cardinality(timers) = 1
  /\ startResp.origin = "scheduled"
  /\ \E j \in JobIds : Polling(j) /\ displayedJob = [id |-> j, status |-> "running"]
  /\ \E m \in InFlight : m.type = "history" /\ m.phase = "done" /\ m.list # <<>>
                         /\ m.list[1].status = "running"

\* C19: after the view is unmounted no poll timer is live, also when a
\* history load or a status fetch in flight at unmount completes later, and
\* unmounting leaves the job store and the requests in flight alone.
C19_NoTimerAfterUnmount ==
  /\ [](~mounted => timers = {})
  /\ [][Unmount => (jobs' = jobs /\ pnet' = pnet)]_vars

\* C20: when the runner finishes its job and status fetches keep being
\* answered, a mounted client that is polling eventually has stopped its
\* timer with isRunning false, so that Start Sync is available again.
C20_PollingEventuallyStops ==
  (mounted /\ pollRef # 0) ~> (pollRef = 0 /\ ~isRunning)

\* the client polled a job to its end and the control is free again
C20_Witness ==
  /\ mounted
  /\ pollRef = 0
  /\ ~isRunning
  /\ ~isStarting
  /\ displayedJob.id \in JobIds
  /\ displayedJob.status = "success"
  /\ jobs[displayedJob.id].status = "success"
  /\ selected # {}

\* ------------------------------------------------------------------ C21
\* the start requests of the control that are outstanding: sent and not yet
\* answered to the control
StartsOutstanding ==
  LET S == {m \in InFlight : m.type = "start"}
  IN  BagCardinality([m \in S |-> pnet[m]])

\* C21: a start request is sent only when isRunning is false, the selection
\* is not empty and no start request of the control is in flight, and it
\* carries the selection; in every other state handleStart does nothing; so
\* the control never has two start requests outstanding and never asks for
\* a sync of no entity.
C21_StartGuard ==
  /\ [](StartsOutstanding <= 1)
  /\ [](\A m \in InFlight : m.type = "start" => m.entities # {})
  /\ [](ENABLED handleStart =>
          (~isRunning /\ selected # {} /\ StartsOutstanding = 0))
  /\ [][StartsOutstanding' > StartsOutstanding =>
          /\ ~isRunning
          /\ selected # {}
          /\ StartsOutstanding = 0
          /\ PMsg("start", 0, selected) \in BagToSet(pnet')]_vars

\* a start for the entities selected at the click is in flight, the
\* selection has been emptied since, nothing runs, and the click is refused
C21_Witness ==
  /\ mounted
  /\ StartsOutstanding = 1
  /\ isStarting
  /\ selected = {}
  /\ \E m \in InFlight : m.type = "start" /\ m.entities = ENTITIES
  /\ ~isRunning
  /\ BagCardinality(pnet) < MaxFetches
  /\ ~ENABLED handleStart

\* ------------------------------------------------------------------ C22
\* C22: when a start request is rejected or lost, onSyncStarted does not
\* run: the poll state (timer, isRunning, held record) is unchanged and no
\* history load is issued, the error message is set and isStarting is false
\* again; onSyncStarted runs once for each successful start, with the id of
\* the job that start created, and consumes the response.
C22_RejectedStartLeavesPollClient ==
  /\ [][\A m \in AnyMsg :
          (mounted /\ (StartRejected(m) \/ (m.type = "start" /\ FetchFails(m)))) =>
            /\ pollRef' = pollRef
            /\ timers' = timers
            /\ isRunning' = isRunning
            /\ displayedJob' = displayedJob
            /\ HistoryRequests(pnet') = HistoryRequests(pnet)
            /\ startError'
            /\ ~isStarting'
            /\ StartsOutstanding' = 0]_vars
  /\ [][\A m \in AnyMsg :
          StartResponse(m) =>
            /\ m.job \in JobIds
            /\ pnet[m] = 1
            /\ m \notin BagToSet(pnet')
            /\ Polling(m.job)']_vars
  /\ [](\A m1, m2 \in InFlight :
          (m1.type = "start" /\ m1.phase = "done" /\ m1.ok /\
           m2.type = "start" /\ m2.phase = "done" /\ m2.ok) => m1 = m2)

\* the server refused the start because a scheduled job is running: the
\* message is up, the control is free, nothing polls and no record is held
C22_Witness ==
  /\ mounted
  /\ startError
  /\ ~isStarting
  /\ startResp.kind = "concurrency_error"
  /\ startResp.origin = "manual"
  /\ RunningJobs # {}
  /\ pollRef = 0
  /\ timers = {}
  /\ ~isRunning
  /\ displayedJob = NullJob
  /\ StartsOutstanding = 0

\* ------------------------------------------------------------------ C23
\* C23: a scheduled fire goes through tryStart: with no job running it
\* creates the one running job; while a job is running it is answered with
\* the concurrency error, creates no job and is not kept (a job is created
\* only by a start taken while none runs, never when the running job ends),
\* and the scheduler fires again only after a whole interval; with interval
\* 0 it never fires.
C23_ScheduledFireGate ==
  /\ [][ScheduledFire =>
          /\ srvInterval > 0
          /\ sinceFire = srvInterval
          /\ sinceFire' = 0
          /\ IF RunningJobs # {}
             THEN /\ jobs' = jobs
                  /\ startResp' = [kind |-> "concurrency_error", job_id |-> 0,
                                   origin |-> "scheduled"]
             ELSE /\ jobs' = Append(jobs, NewJob(ENTITIES))
                  /\ startResp'.kind = "started"]_vars
  /\ [][jobs' # jobs /\ Len(jobs') > Len(jobs) =>
          (RunningJobs = {} /\ (ScheduledFire \/ Start(ENTITIES, "manual")))]_vars
  /\ [](srvInterval = 0 => ~ENABLED ScheduledFire)
  /\ [](Cardinality(RunningJobs) <= 1)

\* a scheduled fire was just rejected because a manual job is running: no
\* job was created and the scheduler waits for the next interval
C23_Witness ==
  /\ startResp = [kind |-> "concurrency_error", job_id |-> 0, origin |-> "scheduled"]
  /\ Len(jobs) = 1
  /\ jobs[1].status = "running"
  /\ srvInterval > 0
  /\ sinceFire = 0
  /\ ~ENABLED ScheduledFire

\* ------------------------------------------------------------------ C26
\* C26: a change of the interval sends one save that remembers the value
\* displayed before the change; when the save fails the displayed interval
\* is that value again and the error message is set; saving is true exactly
\* while a save is outstanding and the selector accepts no change then, so
\* at most one save is outstanding.
C26_SaveFailureReverts ==
  /\ [][\A val \in INTERVAL_OPTIONS :
          handleIntervalChange(val) =>
            /\ val # syncInterval
            /\ syncInterval' = val
            /\ AMsg("save", val, syncInterval) \in BagToSet(anet')]_vars
  /\ [][\A m \in AInFlight :
          SaveFails(m) =>
            /\ syncInterval' = m.prev
            /\ m.prev # m.val
            /\ settingsError'
            /\ ~saving']_vars
  /\ [](SavesOutstanding <= 1)
  /\ [](saving <=> SavesOutstanding = 1)
  /\ [](saving => \A val \in INTERVAL_OPTIONS : ~ENABLED handleIntervalChange(val))

\* the store holds 1 and the card shows 2 with the message up, while the
\* load of the mount effect is still unanswered: the change from 2 to 1
\* reached the store, its response was lost and the card went back to 2
C26_Witness ==
  /\ settingsError
  /\ ~saving
  /\ anet = SetToBag({AMsg("load", 0, 0)})
  /\ syncInterval = 2
  /\ srvInterval = 1

\* ------------------------------------------------------------------ C24
ConfigSlots == 1..(Len(InitialConfigs) + MaxSaves)

\* C24: selectConfig sets the selection to the configuration's group ids and
\* the pointer to its id in the step that sends the post, before the store
\* has changed; when the post fails the selection, the pointer and every
\* other field of the page, the error included, stay as they are.
C24_ActivateBestEffort ==
  /\ [][\A c \in ConfigSlots :
          handleSelectConfig(c) =>
            /\ selectedGroupIds' = configs[c].group_ids
            /\ activeConfigId' = configs[c].id
            /\ error' = error
            /\ srvActive' = srvActive /\ srvConfigs' = srvConfigs]_vars
  /\ [][\A i \in 1..MaxInFlight :
          (RequestFails(i) /\ net[i].type = "select") =>
            /\ selectedGroupIds' = selectedGroupIds
            /\ activeConfigId' = activeConfigId
            /\ configs' = configs
            /\ error' = error]_vars

\* configuration 1 was activated and the post was lost: the page shows it
\* active with its groups selected, the store does not remember it
C24_Witness ==
  /\ net = <<>>
  /\ posts = 1
  /\ edits = 0
  /\ srvConfigs = InitialConfigs
  /\ ~error
  /\ activeConfigId = 1
  /\ srvActive = 0
  /\ \E c \in 1..Len(configs) :
       configs[c].id = 1 /\ selectedGroupIds = configs[c].group_ids

\* ------------------------------------------------------------------ C25
\* C25: deleteConfig posts the list without that configuration and with the
\* pointer none exactly when that configuration is the active one (the
\* pointer as it is at the click otherwise); when the store has answered,
\* the page takes that list and that pointer; neither step changes the
\* selection.
C25_DeleteFrame ==
  /\ [][\A c \in ConfigSlots :
          handleDeleteConfig(c) =>
            LET sent == net'[Len(net')]
            IN /\ net' = Append(net, sent)
               /\ sent.type = "delete"
               /\ sent.configs = SelectSeq(configs, LAMBDA x : x.id # configs[c].id)
               /\ (sent.active = 0) <=> (activeConfigId \in {0, configs[c].id})
               /\ sent.active \in {0, activeConfigId}
               /\ \A k \in 1..Len(sent.configs) : sent.configs[k].id # configs[c].id
               /\ Len(sent.configs) = Len(configs) - 1
               /\ UNCHANGED pageVars]_vars
  /\ [][\A i \in 1..MaxInFlight :
          (ServerHandle(i) /\ net[i].type = "delete") =>
            /\ srvConfigs' = net[i].configs
            /\ net'[i].configs = net[i].configs
            /\ net'[i].active = net[i].active]_vars
  /\ [][\A i \in 1..MaxInFlight :
          DeleteResponse(i) =>
            /\ configs' = net[i].configs
            /\ activeConfigId' = net[i].active
            /\ selectedGroupIds' = selectedGroupIds]_vars

\* the active configuration was deleted: the list is empty, the pointer is
\* none and the groups it had selected are still selected
C25_Witness ==
  /\ net = <<>>
  /\ configs = <<>>
  /\ srvConfigs = <<>>
  /\ activeConfigId = 0
  /\ selectedGroupIds = InitialConfigs[1].group_ids

\* ------------------------------------------------------------------ C29
\* C29: the active pointer is none or the id of a configuration in the
\* configs list, in every state of the page.
C29_ActivePointerValid ==
  activeConfigId = 0 \/ \E k \in 1..Len(configs) : configs[k].id = activeConfigId

\* ------------------------------------------------------------------ C30
\* C30: a toggle that reaches handleGroupToggle sets the pointer to none,
\* flips the membership of the toggled group and of no other group, and
\* leaves the configs list as it is.
C30_ToggleFrame ==
  [][\A g \in GroupIds :
       ChipClick(g) =>
         /\ activeConfigId' = 0
         /\ (g \in selectedGroupIds') <=> (g \notin selectedGroupIds)
         /\ \A h \in GroupIds \ {g} :
              (h \in selectedGroupIds') <=> (h \in selectedGroupIds)
         /\ configs' = configs]_vars

\* a group of the active configuration was toggled off: the pointer is
\* none, the other group of the configuration is still selected and the
\* configuration is still in the list
C30_Witness ==
  /\ activeConfigId = 0
  /\ srvActive = 1
  /\ net = <<>>
  /\ configs = InitialConfigs
  /\ selectedGroupIds = {2}

\* ------------------------------------------------------------------ C27
\* C27: a status response for a job the page no longer polls, delivered
\* while the page polls another job, leaves the timer of that job alone,
\* leaves isRunning alone while that job runs and does not put its own
\* record in the place of that job's record.
C27_StaleResponseHarmless ==
  [][\A m \in AnyMsg : \A j2 \in JobIds :
       (mounted /\ StatusResponse(m) /\ m.job # j2 /\ Polling(j2)) =>
         /\ pollRef' = pollRef
         /\ timers' = timers
         /\ (jobs[j2].status = "running" => isRunning' = isRunning)
         /\ (displayedJob.id = j2 => displayedJob'.id = j2)]_vars

\* ------------------------------------------------------------------ C28
\* C28: while the page is mounted, isRunning implies that pollRef names a
\* live interval.
C28_RunningImpliesTimer ==
  (mounted /\ isRunning) => (pollRef # 0 /\ \E t \in timers : t.id = pollRef)

\* polling was resumed for a job the scheduler started: Start Sync is
\* disabled and the interval that will enable it again is live
C28_Witness ==
  /\ mounted
  /\ isRunning
  /\ ~isStarting
  /\ selected # {}
  /\ startResp.origin = "scheduled"
  /\ \E j \in JobIds : Polling(j) /\ jobs[j].status = "running"
  /\ ~ENABLED handleStart

====
